---- MODULE Spec2Model ----
(***************************************************************************)
(* A model of the positronic-variable convergence engine                   *)
(* (pkg/positronic/positronic.go, append-only variant, lines 1-251) and of *)
(* the example program of cmd/positronic/main.go.                          *)
(*                                                                         *)
(* The engine's fields are the variables timeline, convergence,            *)
(* outputLogs and iteration.  RunProgram is a loop that calls a host       *)
(* callback, so it is modelled as a sequence of steps, one per region of   *)
(* code between two points where the engine lock is free; every public     *)
(* method (Assign, Output, CurrentState, Reinitialize) is one step.        *)
(* The older entropy-passing variant (lines 253-409 of the same file) is   *)
(* modelled apart, under SpecOld.                                          *)
(***************************************************************************)
EXTENDS Integers, Sequences, FiniteSets

(***************************************************************************)
(* Program constants.                                                      *)
(***************************************************************************)
MaxIterations == 100

MaxCycleLength == 10

(***************************************************************************)
(* Bounds of the model.                                                    *)
(***************************************************************************)
\* longest non-repeating prefix of the short step functions
MaxPrefix == 2

\* longest period of the step functions (one more than MaxCycleLength)
MaxPeriod == 11

\* number of RunProgram calls the host makes in SpecHost
MaxRuns == 2

\* number of Assign/Output/CurrentState/Reinitialize calls the host makes
MaxHostOps == 2

\* the host passes the values 0..MaxHostValue
MaxHostValue == 1

\* longest arbitrary timeline handed to the cycle detector in SpecDetect
MaxTimeline == 7

\* number of threads, besides the one in RunProgram, that call the engine
NumCallers == 2

\* number of calls those threads make while RunProgram is running
MaxExtOps == 2

\* those threads call during the first ExtWindow callback invocations of a
\* run and after it
ExtWindow == 2

\* most Assign calls in one callback invocation
MaxBurst == 3

(***************************************************************************)
(* Values.  A Go interface{} value held by the engine is a record: an int, *)
(* a superposition built by quantum.Any over a set of values, the engine   *)
(* itself (a *PositronicVariable passed as an output argument), or nil.    *)
(***************************************************************************)
Conc(v) == [kind |-> "int", v |-> v, set |-> {}]

Any(S) == [kind |-> "any", v |-> 0, set |-> S]

Nil == [kind |-> "nil", v |-> 0, set |-> {}]

EngineRef == [kind |-> "engine", v |-> 0, set |-> {}]

\* what a slice index outside 0..len-1 yields (a run-time panic in Go)
Fault == [kind |-> "fault", v |-> 0, set |-> {}]

(***************************************************************************)
(* Pure parts of the engine's methods.                                     *)
(***************************************************************************)
\* timeline[i][0] with Go's 0-based index
At(tl, i) == IF i >= 0 /\ i < Len(tl) /\ Len(tl[i + 1]) > 0 THEN tl[i + 1][1] ELSE Fault

\* NewPositronicVariable: the fields after construction
NewPositronicVariable(initialValue) ==
    [timeline |-> << <<initialValue>> >>, convergence |-> FALSE,
     outputLogs |-> <<>>, iteration |-> 0]

\* a Reinitialize that forgets the output logs
ReinitializeKeepLogs(pv, value) ==
    [pv EXCEPT !.timeline = << <<value>> >>, !.convergence = FALSE]

\* a Reinitialize that leaves the timeline as it is
ReinitializeKeepTimeline(pv, value) == [pv EXCEPT !.convergence = FALSE, !.outputLogs = <<>>]

\* Reinitialize: a one-entry timeline, convergence false, no output logs
Reinitialize(pv, value) ==
    [pv EXCEPT !.timeline = << <<value>> >>, !.convergence = FALSE, !.outputLogs = <<>>]

\* a CurrentState that answers from the first timeline entry
CurrentStateFirst(tl) == IF Len(tl) = 0 THEN Nil ELSE tl[1][1]

\* CurrentState: the first element of the last timeline entry, or nil
CurrentState(tl) ==
    IF Len(tl) = 0 THEN Nil
    ELSE IF Len(tl[Len(tl)]) = 0 THEN Nil
    ELSE tl[Len(tl)][1]

\* an Assign that overwrites the current entry instead of appending
AssignOverwrite(pv, value) == [pv EXCEPT !.timeline = [@ EXCEPT ![Len(@)] = <<value>>]]

\* Assign: always append
Assign(pv, value) == [pv EXCEPT !.timeline = Append(@, <<value>>)]

\* an Output that records in iteration 0 as well
OutputFromStart(pv, format, args) ==
    LET l == IF Len(pv.outputLogs) = 0 THEN << <<>> >> ELSE pv.outputLogs
    IN  [pv EXCEPT !.outputLogs =
            [l EXCEPT ![Len(l)] = Append(@, [format |-> format, args |-> args])]]

\* Output: skip in iteration 0, open a bucket if there is none, append to the last
Output(pv, format, args) ==
    IF pv.iteration = 0 THEN pv
    ELSE LET l == IF Len(pv.outputLogs) = 0 THEN << <<>> >> ELSE pv.outputLogs
         IN  [pv EXCEPT !.outputLogs =
                 [l EXCEPT ![Len(l)] = Append(@, [format |-> format, args |-> args])]]

\* a RunProgram that reseeds from the current state instead of entry 0
SeedOfLast(tl) == CurrentState(tl)

\* the read of pv.timeline[0][0] at the start of RunProgram
SeedOf(tl) == At(tl, 0)

(***************************************************************************)
(* checkConvergence, loop by loop.  Each operator returns what the loop    *)
(* computed together with the set of timeline indices it read.             *)
(***************************************************************************)
RECURSIVE MatchLoop(_, _, _, _, _)
\* the inner loop: for i := 0; i < cycleLen; i++ { if a != b { match = false; break } }
MatchLoop(tl, n, cycleLen, i, reads) ==
    IF i < cycleLen
    THEN LET a == n - 1 - i
             b == n - 1 - i - cycleLen
             r == reads \cup {a, b}
         IN  IF At(tl, a) # At(tl, b)
             THEN [match |-> FALSE, reads |-> r]
             ELSE MatchLoop(tl, n, cycleLen, i + 1, r)
    ELSE [match |-> TRUE, reads |-> reads]

\* a loop condition without the cap on the cycle length
ScanCondNoCap(n, cycleLen) == cycleLen * 2 <= n

\* a loop condition that lets the second block start one entry too early
ScanCondOffByOne(n, cycleLen) == cycleLen <= MaxCycleLength /\ cycleLen * 2 <= n + 1

\* the outer loop's condition: cycleLen <= maxCycleLength && cycleLen*2 <= n
ScanCond(n, cycleLen) == cycleLen <= MaxCycleLength /\ cycleLen * 2 <= n

RECURSIVE ScanLoop(_, _, _, _)
\* the outer loop: return at the first cycleLen that matches
ScanLoop(tl, n, cycleLen, reads) ==
    IF ScanCond(n, cycleLen)
    THEN LET m == MatchLoop(tl, n, cycleLen, 0, reads)
         IN  IF m.match
             THEN [found |-> TRUE, len |-> cycleLen, reads |-> m.reads, n |-> n]
             ELSE ScanLoop(tl, n, cycleLen + 1, m.reads)
    ELSE [found |-> FALSE, len |-> 0, reads |-> reads, n |-> n]

\* a detector that compares only the last two entries
checkConvergencePair(tl) ==
    IF Len(tl) >= 2 /\ At(tl, Len(tl) - 1) = At(tl, Len(tl) - 2)
    THEN [found |-> TRUE, len |-> 1, reads |-> {Len(tl) - 1, Len(tl) - 2}, n |-> Len(tl)]
    ELSE [found |-> FALSE, len |-> 0, reads |-> {}, n |-> Len(tl)]

checkConvergence(tl) == ScanLoop(tl, Len(tl), 1, {})

(***************************************************************************)
(* createSuperpositions: the set of the values of every non-empty entry    *)
(* but entry 0, handed to quantum.Any, appended as one entry.              *)
(***************************************************************************)
\* a collection that does not skip entry 0
StateSetWithSeed(tl) == {tl[i + 1][1] : i \in {j \in 0..(Len(tl) - 1) : Len(tl[j + 1]) > 0}}

\* a collection that skips entry 1 as well
StateSetFromSecond(tl) ==
    {tl[i + 1][1] : i \in {j \in 0..(Len(tl) - 1) : Len(tl[j + 1]) > 0 /\ j > 1}}

StateSet(tl) == {tl[i + 1][1] : i \in {j \in 0..(Len(tl) - 1) : Len(tl[j + 1]) > 0 /\ j # 0}}

\* a collapse that puts the superposition in place of the last entry
createSuperpositionsInPlace(tl) == [tl EXCEPT ![Len(tl)] = <<Any(StateSet(tl))>>]

\* createSuperpositions: append the superposition of the collected states
createSuperpositions(tl) == Append(tl, <<Any(StateSet(tl))>>)

(***************************************************************************)
(* processOutputs: the lines to print, one per format key found in the     *)
(* last cycleLen buckets, each with the superposition of the distinct      *)
(* arguments logged under that key.  Go iterates maps in no fixed order,   *)
(* so the print list is a set and the print steps take it in any order.    *)
(***************************************************************************)
RECURSIVE SeqToSet(_)
SeqToSet(s) == IF s = <<>> THEN {} ELSE {Head(s)} \cup SeqToSet(Tail(s))

\* an aggregation over every bucket, whatever the cycle length
AllBuckets(n, cycleLen) == 0..(n - 1)

\* an aggregation that starts one bucket too late
LastBucketsShort(n, cycleLen) == {i \in 0..(n - 1) : i > n - cycleLen}

\* the buckets the aggregation reads: i := n - cycleLen; i < n
LastBuckets(n, cycleLen) == {i \in 0..(n - 1) : i >= n - cycleLen}

\* every entry of those buckets
LastEntries(logs, cycleLen) ==
    UNION {SeqToSet(logs[i + 1]) : i \in LastBuckets(Len(logs), cycleLen)}

\* an aggregation that puts every argument under every key
ArgsSetAnyKey(entries, key) == UNION {SeqToSet(e.args) : e \in entries}

\* outputMap[key], as the set of its arguments (duplicates removed)
ArgsSet(entries, key) == UNION {SeqToSet(e.args) : e \in {x \in entries : x.format = key}}

\* the early return: n < cycleLen
ProcessSkips(logs, cycleLen) == Len(logs) < cycleLen

PrintList(logs, cycleLen) ==
    IF ProcessSkips(logs, cycleLen) THEN {}
    ELSE LET entries == LastEntries(logs, cycleLen)
         IN  {[format |-> key, superArg |-> Any(ArgsSet(entries, key))] :
                 key \in {e.format : e \in entries}}

\* String(): the engine renders as its current state
Render(x, tl) == IF x.kind = "engine" THEN CurrentState(tl) ELSE x

\* fmt.Printf(format, superArg): the line, with every member of the
\* superposition rendered when the line is printed
Printf(pd, tl) == [format |-> pd.format, text |-> Any({Render(x, tl) : x \in pd.superArg.set})]

(***************************************************************************)
(* Callbacks.  A callback is a script of engine calls around one local     *)
(* variable val; its step function is applied to the current state.        *)
(***************************************************************************)
OutputOp(format, arg) == [op |-> "Output", format |-> format, arg |-> arg]

ComputeOp == [op |-> "Compute", format |-> "", arg |-> ""]

AssignOp == [op |-> "Assign", format |-> "", arg |-> ""]

\* Go's % truncates toward zero
GoMod(a, b) == IF a >= 0 THEN a % b ELSE 0 - ((0 - a) % b)

\* a step function with a non-repeating prefix 0..m-1 and a cycle m..m+P-1
Rho(m, P, x) == IF x < m + P - 1 THEN x + 1 ELSE m

\* the example with the wrong modulus
Mod2(x) == GoMod(x + 1, 2)

\* the example: val := (antival.CurrentState().(int) + 1) % 3
Mod3(x) == GoMod(x + 1, 3)

Step(fn, x) == IF fn.kind = "mod3" THEN Mod3(x) ELSE Rho(fn.m, fn.P, x)

\* the example's two format strings
AntivalLine == "The antival is %v\n"

ValueLine == "The value is %v\n"

\* func Program of cmd/positronic/main.go, run by main() with seed -1
ExampleProgram ==
    [name |-> "example", seed |-> -1, fn |-> [kind |-> "mod3", m |-> 1, P |-> 3],
     script |-> <<OutputOp(AntivalLine, "engine"), ComputeOp,
                  OutputOp(ValueLine, "val"), AssignOp>>]

\* a callback doing one Assign(f(CurrentState())) per invocation
RhoProgram(m, P) ==
    [name |-> "rho", seed |-> 0, fn |-> [kind |-> "rho", m |-> m, P |-> P],
     script |-> <<ComputeOp, AssignOp>>]

\* prefixes that put the first possible detection at the end of the
\* iteration budget: the last one that converges and the first that does not
BudgetPrefixes(P) == {MaxIterations + 1 - 2 * P, MaxIterations + 2 - 2 * P}

\* the example's calls around a step function of prefix m and period P
ChattyProgram(m, P) ==
    [name |-> "chatty", seed |-> 0, fn |-> [kind |-> "rho", m |-> m, P |-> P],
     script |-> ExampleProgram.script]

\* the callbacks handed to RunProgram
Programs ==
    {ExampleProgram}
    \cup {RhoProgram(m, P) : m \in 0..MaxPrefix, P \in 1..MaxPeriod}
    \cup UNION {{RhoProgram(m, P) : m \in BudgetPrefixes(P)} : P \in {1, MaxCycleLength}}
    \cup {ChattyProgram(m, P) : m \in 0..1, P \in {2, MaxPeriod}}

\* j times val := f(CurrentState()); Output(val); Assign(val) in one invocation
RECURSIVE BurstScript(_)
BurstScript(j) ==
    IF j = 0 THEN <<OutputOp(AntivalLine, "engine")>>
    ELSE BurstScript(j - 1) \o <<ComputeOp, OutputOp(ValueLine, "val"), AssignOp>>

BurstProgram(j, m, P) ==
    [name |-> "burst", seed |-> 0, fn |-> [kind |-> "rho", m |-> m, P |-> P],
     script |-> BurstScript(j)]

\* a callback that never calls the engine
SilentProgram ==
    [name |-> "silent", seed |-> 0, fn |-> [kind |-> "rho", m |-> 0, P |-> 1], script |-> <<>>]

\* a callback that reads and prints but never assigns
WatchProgram ==
    [name |-> "watch", seed |-> 0, fn |-> [kind |-> "rho", m |-> 0, P |-> 1],
     script |-> <<ComputeOp, OutputOp(ValueLine, "val")>>]

WarmupLine == "Warming up %v\n"

\* a callback that prints one more line while its value is not yet on the cycle
WarmupProgram(m, P) ==
    [name |-> "warmup", seed |-> 0, fn |-> [kind |-> "rho", m |-> m, P |-> P],
     script |-> <<OutputOp(AntivalLine, "engine"), ComputeOp, OutputOp(WarmupLine, "early"),
                  OutputOp(ValueLine, "val"), AssignOp>>]

\* callbacks of every shape: any number of Assign and Output calls
WidePrograms ==
    Programs
    \cup {BurstProgram(j, m, j) : j \in 2..MaxBurst, m \in 0..1}
    \cup {BurstProgram(2, 0, P) : P \in {1, 3, MaxPeriod}}
    \cup {SilentProgram, WatchProgram}
    \cup {WarmupProgram(m, P) : m \in 1..(MaxPrefix + 1), P \in 1..3}

\* the callbacks of the engines other threads call during the run
ConcPrograms == {ExampleProgram, RhoProgram(0, 1), RhoProgram(1, 2), SilentProgram}

\* the callbacks of the engines the host also calls directly
HostPrograms ==
    {ExampleProgram, RhoProgram(0, 1), RhoProgram(1, 2), ChattyProgram(0, MaxPeriod)}

\* the values the host passes to Assign, Reinitialize and Output
HostValues == 0..MaxHostValue

\* x_0 = 0, x_(i+1) = Rho(m, P, x_i): the timeline a RhoProgram builds
Orbit(m, P, n) == [i \in 1..n |-> <<Conc(IF i - 1 < m + P THEN i - 1 ELSE m + ((i - 1 - m) % P))>>]

\* the timelines handed to the cycle detector on its own: every timeline of
\* two values up to MaxTimeline entries, and the orbits long enough for
\* every cycle length up to MaxPeriod to repeat twice
DetectTimelines ==
    UNION {[1..n -> {<<Conc(0)>>, <<Conc(1)>>}] : n \in 1..MaxTimeline}
    \cup {Orbit(m, P, n) : m \in 0..MaxPrefix, P \in 1..MaxPeriod,
                           n \in 1..(2 * MaxPeriod + MaxPrefix + 1)}

(***************************************************************************)
(* State.                                                                  *)
(***************************************************************************)
VARIABLES
    timeline,     \* pv.timeline
    convergence,  \* pv.convergence
    outputLogs,   \* pv.outputLogs
    iteration,    \* pv.iteration
    prog,         \* the callback handed to RunProgram
    pc,           \* where RunProgram is
    entropy,      \* RunProgram's local entropy
    iterations,   \* RunProgram's loop counter
    cycleLen,     \* RunProgram's local cycleLen
    seedRead,     \* the value of pv.timeline[0][0] read for Reinitialize
    cc,           \* what the last checkConvergence call returned
    cpc,          \* the callback's position in its script
    val,          \* the callback's local val
    printList,    \* processOutputs' printList, the lines not yet printed
    printed,      \* the lines printed by the current run
    ret,          \* what the host's last CurrentState call returned
    seed,         \* the value the engine was last seeded with by the host
    runs,         \* RunProgram calls started
    calls,        \* callback invocations of the current run
    assigned,     \* the values the callback assigned in the current run
    hostOps,      \* calls the host made besides RunProgram
    lastOp,       \* the operation the last step executed
    pre,          \* the engine's fields before the last step
    mu,           \* pv.mu: "free" or "held"
    acc,          \* the accesses to the engine's fields the last step made
    seen,         \* per caller, what CurrentState returned since the last mutation
    lastMut,      \* the value the last Assign, Reinitialize or collapse wrote
    seeding,      \* no iteration >= 1 has started since the last Reinitialize
    first         \* how the run before this one ended, when this one followed at once

vars == <<timeline, convergence, outputLogs, iteration, prog, pc, entropy, iterations,
          cycleLen, seedRead, cc, cpc, val, printList, printed, ret, seed, runs, calls,
          assigned, hostOps, lastOp, pre, mu, acc, seen, lastMut, seeding,
          first>>

fields == <<timeline, convergence, outputLogs, iteration>>

locals == <<entropy, iterations, cycleLen, seedRead, cc, cpc, val, printList>>

Fields == [timeline |-> timeline, convergence |-> convergence,
           outputLogs |-> outputLogs, iteration |-> iteration]

NoCheck == [found |-> FALSE, len |-> 0, reads |-> {}, n |-> 0]

\* the threads calling the engine: 0 is the one in RunProgram and in the
\* callback, the others are the host's
Callers == 0..NumCallers

Unseen == [c \in Callers |-> Nil]

\* one access to a field of the engine
Access(field, write, locked) == [field |-> field, write |-> write, locked |-> locked]

\* the regions of code that start with pv.mu.Lock()
Locks(name) ==
    name \in {"Reinitialize", "Output", "Assign", "CurrentState", "String", "LoopEnter",
              "checkConvergence", "createSuperpositions", "processOutputs"}

\* a RunProgram that calls the callback without releasing the lock
UnlocksButLoopEnter(name) == Locks(name) /\ name # "LoopEnter"

\* the regions that release the lock before they end: by defer in the
\* methods, by pv.mu.Unlock() in RunProgram's loop and on both paths of
\* processOutputs
Unlocks(name) == Locks(name)

\* the fields each region reads and writes, and whether it holds the lock
Accesses(name) ==
    CASE name = "RunProgram" -> {Access("timeline", FALSE, FALSE)}
      [] name = "MarkConverged" -> {Access("convergence", TRUE, FALSE)}
      [] name = "Reinitialize" ->
            {Access("timeline", TRUE, TRUE), Access("convergence", TRUE, TRUE),
             Access("outputLogs", TRUE, TRUE)}
      [] name = "Output" ->
            {Access("iteration", FALSE, TRUE), Access("outputLogs", FALSE, TRUE),
             Access("outputLogs", TRUE, TRUE)}
      [] name = "Assign" -> {Access("timeline", FALSE, TRUE), Access("timeline", TRUE, TRUE)}
      [] name \in {"CurrentState", "String", "checkConvergence"} ->
            {Access("timeline", FALSE, TRUE)}
      [] name = "LoopEnter" ->
            {Access("iteration", TRUE, TRUE), Access("outputLogs", FALSE, TRUE),
             Access("outputLogs", TRUE, TRUE)}
      [] name = "createSuperpositions" ->
            {Access("timeline", FALSE, TRUE), Access("timeline", TRUE, TRUE)}
      [] name = "processOutputs" -> {Access("outputLogs", FALSE, TRUE)}
      [] OTHER -> {}

\* what a RunProgram call leaves when it returns
Outcome == [ran |-> TRUE, convergence |-> convergence, cycleLen |-> cycleLen,
            timeline |-> timeline, printed |-> printed]

NoOutcome == [ran |-> FALSE, convergence |-> FALSE, cycleLen |-> 0,
              timeline |-> <<>>, printed |-> <<>>]

\* every step records its name, its argument and the fields it started
\* from; a region that locks waits for the lock and leaves it as its code does
Did(name, arg) ==
    /\ lastOp' = [name |-> name, arg |-> arg]
    /\ pre' = Fields
    /\ Locks(name) => mu = "free"
    /\ mu' = IF Locks(name) /\ ~Unlocks(name) THEN "held" ELSE mu
    /\ acc' = Accesses(name)
    /\ IF name = "CurrentState" THEN TRUE
       ELSE seen' = IF name \in {"Assign", "Reinitialize", "createSuperpositions"}
                    THEN Unseen ELSE seen
    /\ lastMut' = IF name \in {"Assign", "Reinitialize"} THEN arg
                  ELSE IF name = "createSuperpositions" THEN Any(StateSet(timeline))
                  ELSE lastMut
    /\ seeding' = IF name = "Reinitialize" THEN TRUE
                  ELSE IF name = "LoopEnter" /\ iterations >= 1 THEN FALSE
                  ELSE seeding
    /\ first' = IF name # "RunProgram" THEN first
                ELSE IF pc = "done" THEN Outcome
                ELSE NoOutcome

\* the fields after a method that returns the record r
Becomes(r) ==
    /\ timeline' = r.timeline
    /\ convergence' = r.convergence
    /\ outputLogs' = r.outputLogs
    /\ iteration' = r.iteration

\* RunProgram's and the callback's locals before any run
Locals0 ==
    /\ entropy = 1
    /\ iterations = 0
    /\ cycleLen = 0
    /\ seedRead = Nil
    /\ cc = NoCheck
    /\ cpc = 1
    /\ val = 0
    /\ printList = {}

\* nothing printed, returned or counted yet
Ghosts0 ==
    /\ printed = <<>>
    /\ ret = Nil
    /\ runs = 0
    /\ calls = 0
    /\ assigned = <<>>
    /\ hostOps = 0
    /\ mu = "free"
    /\ acc = {}
    /\ seen = Unseen
    /\ seeding = TRUE
    /\ first = NoOutcome

\* the state once the host has built the engine: pv := NewPositronicVariable(seed)
InitFor(p) ==
    /\ prog = p
    /\ timeline = NewPositronicVariable(Conc(p.seed)).timeline
    /\ convergence = NewPositronicVariable(Conc(p.seed)).convergence
    /\ outputLogs = NewPositronicVariable(Conc(p.seed)).outputLogs
    /\ iteration = NewPositronicVariable(Conc(p.seed)).iteration
    /\ pc = "idle"
    /\ Locals0
    /\ Ghosts0
    /\ seed = Conc(p.seed)
    /\ lastOp = [name |-> "New", arg |-> Conc(p.seed)]
    /\ pre = NewPositronicVariable(Conc(p.seed))
    /\ lastMut = Conc(p.seed)

Init == \E p \in Programs : InitFor(p)

(***************************************************************************)
(* RunProgram.                                                             *)
(***************************************************************************)
\* entropy := 1; var cycleLen int; the argument pv.timeline[0][0] is read
RunBegin ==
    /\ pc \in {"idle", "done"}
    /\ pc' = "reinit"
    /\ entropy' = 1
    /\ cycleLen' = 0
    /\ iterations' = 0
    /\ seedRead' = SeedOf(timeline)
    /\ runs' = runs + 1
    /\ calls' = 0
    /\ assigned' = <<>>
    /\ printed' = <<>>
    /\ printList' = {}
    /\ cc' = NoCheck
    /\ Did("RunProgram", Nil)
    /\ UNCHANGED <<fields, prog, cpc, val, ret, seed, hostOps>>

\* pv.Reinitialize(pv.timeline[0][0])
RunReinitialize ==
    /\ pc = "reinit"
    /\ Becomes(Reinitialize(Fields, seedRead))
    /\ pc' = "loop"
    /\ Did("Reinitialize", seedRead)
    /\ UNCHANGED <<prog, locals, printed, ret, seed, runs, calls, assigned, hostOps>>

\* a loop that goes on for twice the iteration budget
LoopEnterTwiceAsLong ==
    /\ pc = "loop"
    /\ iterations < 2 * MaxIterations
    /\ iteration' = iterations
    /\ outputLogs' = Append(outputLogs, <<>>)
    /\ pc' = "call"
    /\ cpc' = 1
    /\ calls' = calls + 1
    /\ Did("LoopEnter", Nil)
    /\ UNCHANGED <<timeline, convergence, prog, entropy, iterations, cycleLen, seedRead, cc,
                   val, printList, printed, ret, seed, runs, assigned, hostOps>>

\* iterations < maxIterations: set pv.iteration, open the bucket, call program(pv)
LoopEnter ==
    /\ pc = "loop"
    /\ iterations < MaxIterations
    /\ iteration' = iterations
    /\ outputLogs' = Append(outputLogs, <<>>)
    /\ pc' = "call"
    /\ cpc' = 1
    /\ calls' = calls + 1
    /\ Did("LoopEnter", Nil)
    /\ UNCHANGED <<timeline, convergence, prog, entropy, iterations, cycleLen, seedRead, cc,
                   val, printList, printed, ret, seed, runs, assigned, hostOps>>

\* iterations = maxIterations: leave the loop without convergence
LoopExit ==
    /\ pc = "loop"
    /\ ~(iterations < MaxIterations)
    /\ pc' = "process"
    /\ Did("LoopExit", Nil)
    /\ UNCHANGED <<fields, prog, locals, printed, ret, seed, runs, calls, assigned, hostOps>>

InCall(op) == pc = "call" /\ cpc <= Len(prog.script) /\ prog.script[cpc].op = op

\* the callback calls pv.Output(format, arg); a call marked "early" is
\* made only while val is below the cycle of the step function
CallOutput ==
    /\ InCall("Output")
    /\ LET o == prog.script[cpc]
           a == IF o.arg = "engine" THEN EngineRef ELSE Conc(val)
       IN  IF o.arg = "early" /\ ~(val < prog.fn.m)
           THEN UNCHANGED fields /\ Did("Skip", Nil)
           ELSE Becomes(Output(Fields, o.format, <<a>>)) /\ Did("Output", a)
    /\ cpc' = cpc + 1
    /\ UNCHANGED <<prog, pc, entropy, iterations, cycleLen,
                   seedRead, cc, val, printList, printed, ret, seed, runs, calls, assigned,
                   hostOps>>

\* the callback computes val from pv.CurrentState(); the type assertion
\* .(int) panics when the current state is not an int
CallCompute ==
    /\ InCall("Compute")
    /\ LET cur == CurrentState(timeline)
       IN  IF cur.kind = "int"
           THEN val' = Step(prog.fn, cur.v) /\ cpc' = cpc + 1 /\ pc' = pc
           ELSE val' = val /\ cpc' = cpc /\ pc' = "panic"
    /\ seen' = [seen EXCEPT ![0] = CurrentState(timeline)]
    /\ Did("CurrentState", Nil)
    /\ UNCHANGED <<fields, prog, entropy, iterations, cycleLen, seedRead, cc, printList,
                   printed, ret, seed, runs, calls, assigned, hostOps>>

\* the callback calls pv.Assign(val)
CallAssign ==
    /\ InCall("Assign")
    /\ Becomes(Assign(Fields, Conc(val)))
    /\ assigned' = Append(assigned, Conc(val))
    /\ cpc' = cpc + 1
    /\ Did("Assign", Conc(val))
    /\ UNCHANGED <<prog, pc, entropy, iterations, cycleLen,
                   seedRead, cc, val, printList, printed, ret, seed, runs, calls, hostOps>>

Returned == pc = "call" /\ cpc > Len(prog.script)

\* an arrow of time that never turns
KeepArrowOfTime(e) == e

\* an arrow of time that stays backward once turned
StayBackward(e) == 0 - 1

\* entropy = -entropy
ReverseArrowOfTime(e) == 0 - e

\* after a forward pass (entropy > 0): entropy = -entropy; iterations++
ForwardDone ==
    /\ Returned
    /\ ~(entropy < 0)
    /\ entropy' = ReverseArrowOfTime(entropy)
    /\ iterations' = iterations + 1
    /\ pc' = "loop"
    /\ Did("Flip", Nil)
    /\ UNCHANGED <<fields, prog, cycleLen, seedRead, cc, cpc, val, printList, printed, ret,
                   seed, runs, calls, assigned, hostOps>>

\* after a backward pass (entropy < 0): converged, cl := pv.checkConvergence()
CheckStep ==
    /\ Returned
    /\ entropy < 0
    /\ cc' = checkConvergence(timeline)
    /\ IF cc'.found
       THEN pc' = "mark" /\ UNCHANGED <<entropy, iterations>>
       ELSE pc' = "loop" /\ entropy' = ReverseArrowOfTime(entropy)
                         /\ iterations' = iterations + 1
    /\ Did("checkConvergence", Nil)
    /\ UNCHANGED <<fields, prog, cycleLen, seedRead, cpc, val, printList, printed, ret,
                   seed, runs, calls, assigned, hostOps>>

\* pv.convergence = true
MarkConverged ==
    /\ pc = "mark"
    /\ convergence' = TRUE
    /\ pc' = "collapse"
    /\ Did("MarkConverged", Nil)
    /\ UNCHANGED <<timeline, outputLogs, iteration, prog, locals, printed, ret, seed, runs,
                   calls, assigned, hostOps>>

\* pv.createSuperpositions(); cycleLen = cl; break
Collapse ==
    /\ pc = "collapse"
    /\ timeline' = createSuperpositions(timeline)
    /\ cycleLen' = cc.len
    /\ pc' = "process"
    /\ Did("createSuperpositions", Nil)
    /\ UNCHANGED <<convergence, outputLogs, iteration, prog, entropy, iterations, seedRead,
                   cc, cpc, val, printList, printed, ret, seed, runs, calls, assigned, hostOps>>

\* pv.processOutputs(cycleLen), the part under the lock
ProcessOutputs ==
    /\ pc = "process"
    /\ printList' = PrintList(outputLogs, cycleLen)
    /\ pc' = "print"
    /\ Did("processOutputs", Nil)
    /\ UNCHANGED <<fields, prog, entropy, iterations, cycleLen, seedRead, cc, cpc, val,
                   printed, ret, seed, runs, calls, assigned, hostOps>>

\* for _, pd := range printList { fmt.Printf(pd.format, pd.superArg) }
PrintLine ==
    /\ pc = "print"
    /\ \E pd \in printList :
          /\ printed' = Append(printed, Printf(pd, timeline))
          /\ printList' = printList \ {pd}
          /\ Did(IF EngineRef \in pd.superArg.set THEN "String" ELSE "Printf", Nil)
    /\ UNCHANGED <<fields, prog, pc, entropy, iterations, cycleLen, seedRead, cc, cpc, val,
                   ret, seed, runs, calls, assigned, hostOps>>

\* RunProgram returns
RunReturn ==
    /\ pc = "print"
    /\ printList = {}
    /\ pc' = "done"
    /\ Did("Return", Nil)
    /\ UNCHANGED <<fields, prog, locals, printed, ret, seed, runs, calls, assigned, hostOps>>

RunStep ==
    \/ RunReinitialize
    \/ LoopEnter
    \/ LoopExit
    \/ CallOutput
    \/ CallCompute
    \/ CallAssign
    \/ ForwardDone
    \/ CheckStep
    \/ MarkConverged
    \/ Collapse
    \/ ProcessOutputs
    \/ PrintLine
    \/ RunReturn

\* one engine, one RunProgram call, as main() does
Next ==
    \/ runs = 0 /\ RunBegin
    \/ RunStep

Spec == Init /\ [][Next]_vars

\* RunProgram is sequential code on a running thread: it keeps taking steps
FairSpec == Spec /\ WF_vars(Next)

(***************************************************************************)
(* The host calling the engine's methods itself, between runs.             *)
(***************************************************************************)
HostMay == pc \in {"idle", "done"} /\ hostOps < MaxHostOps

HostAssign(v) ==
    /\ HostMay
    /\ Becomes(Assign(Fields, Conc(v)))
    /\ pc' = "idle"
    /\ hostOps' = hostOps + 1
    /\ Did("Assign", Conc(v))
    /\ UNCHANGED <<prog, locals, printed, ret, seed, runs, calls, assigned>>

HostReinitialize(v) ==
    /\ HostMay
    /\ Becomes(Reinitialize(Fields, Conc(v)))
    /\ seed' = Conc(v)
    /\ pc' = "idle"
    /\ hostOps' = hostOps + 1
    /\ Did("Reinitialize", Conc(v))
    /\ UNCHANGED <<prog, locals, printed, ret, runs, calls, assigned>>

HostOutput(v) ==
    /\ HostMay
    /\ Becomes(Output(Fields, ValueLine, <<Conc(v)>>))
    /\ pc' = "idle"
    /\ hostOps' = hostOps + 1
    /\ Did("Output", Conc(v))
    /\ UNCHANGED <<prog, locals, printed, ret, seed, runs, calls, assigned>>

HostCurrentState ==
    /\ HostMay
    /\ ret' = CurrentState(timeline)
    /\ seen' = [seen EXCEPT ![1] = CurrentState(timeline)]
    /\ pc' = "idle"
    /\ hostOps' = hostOps + 1
    /\ Did("CurrentState", Nil)
    /\ UNCHANGED <<fields, prog, locals, printed, seed, runs, calls, assigned>>

InitHost == \E p \in HostPrograms : InitFor(p)

NextHost ==
    \/ runs < MaxRuns /\ RunBegin
    \/ RunStep
    \/ \E v \in HostValues : HostAssign(v)
    \/ \E v \in HostValues : HostReinitialize(v)
    \/ \E v \in HostValues : HostOutput(v)
    \/ HostCurrentState

SpecHost == InitHost /\ [][NextHost]_vars

(***************************************************************************)
(* One run of a callback of any shape.                                     *)
(***************************************************************************)
InitWide == \E p \in WidePrograms : InitFor(p)

SpecWide == InitWide /\ [][Next]_vars

FairSpecWide == SpecWide /\ WF_vars(Next)

(***************************************************************************)
(* Other threads calling the engine's methods while RunProgram runs.  Each *)
(* method holds the lock from its first statement to its return, so a call *)
(* is one step, taken when the lock is free.                               *)
(* RunProgram's two accesses outside the lock (the read of                 *)
(* pv.timeline[0][0] and the write of pv.convergence) race with these      *)
(* calls.  Entry 0 is never overwritten in place and the flag is one byte, *)
(* so the racing read yields the seed of before or of after the other      *)
(* thread's call and the racing write lands before or after it: the        *)
(* outcomes of the two orders of the steps.                                *)
(***************************************************************************)
ExtMay == hostOps < MaxExtOps /\ (calls <= ExtWindow \/ pc = "done")

ExtAssign(v) ==
    /\ ExtMay
    /\ Becomes(Assign(Fields, Conc(v)))
    /\ hostOps' = hostOps + 1
    /\ Did("Assign", Conc(v))
    /\ UNCHANGED <<prog, pc, locals, printed, ret, seed, runs, calls, assigned>>

ExtReinitialize(v) ==
    /\ ExtMay
    /\ Becomes(Reinitialize(Fields, Conc(v)))
    /\ seed' = Conc(v)
    /\ hostOps' = hostOps + 1
    /\ Did("Reinitialize", Conc(v))
    /\ UNCHANGED <<prog, pc, locals, printed, ret, runs, calls, assigned>>

ExtOutput(v) ==
    /\ ExtMay
    /\ Becomes(Output(Fields, ValueLine, <<Conc(v)>>))
    /\ hostOps' = hostOps + 1
    /\ Did("Output", Conc(v))
    /\ UNCHANGED <<prog, pc, locals, printed, ret, seed, runs, calls, assigned>>

ExtCurrentState(c) ==
    /\ ExtMay
    /\ ret' = CurrentState(timeline)
    /\ seen' = [seen EXCEPT ![c] = CurrentState(timeline)]
    /\ hostOps' = hostOps + 1
    /\ Did("CurrentState", Nil)
    /\ UNCHANGED <<fields, prog, pc, locals, printed, seed, runs, calls, assigned>>

InitConc == \E p \in ConcPrograms : InitFor(p)

NextConc ==
    \/ runs = 0 /\ RunBegin
    \/ RunStep
    \/ \E v \in HostValues : ExtAssign(v)
    \/ \E v \in HostValues : ExtReinitialize(v)
    \/ \E v \in HostValues : ExtOutput(v)
    \/ \E c \in 1..NumCallers : ExtCurrentState(c)

SpecConc == InitConc /\ [][NextConc]_vars

(***************************************************************************)
(* The entropy-passing variant of the engine (positronic.go lines          *)
(* 253-409): Assign takes the arrow of time and removes the last entry on  *)
(* a backward pass, RunProgram reinitializes before every forward pass,    *)
(* and the detector compares the last two entries.  It has no output logs  *)
(* and no iteration field; the callback prints by itself.                  *)
(***************************************************************************)
OldReinitialize(pv, value) == [pv EXCEPT !.timeline = << <<value>> >>, !.convergence = FALSE]

\* an Assign that appends whatever the arrow of time
OldAssignAppends(pv, value, e) == [pv EXCEPT !.timeline = Append(@, <<value>>)]

\* Assign(value, entropy): append forward, drop the last entry backward,
\* never the seed
OldAssign(pv, value, e) ==
    IF e > 0 THEN [pv EXCEPT !.timeline = Append(@, <<value>>)]
    ELSE IF Len(pv.timeline) > 1
         THEN [pv EXCEPT !.timeline = SubSeq(@, 1, Len(@) - 1)]
         ELSE pv

\* checkConvergence: the last two entries are equal
OldCheckConvergence(tl) == Len(tl) >= 2 /\ tl[Len(tl)] = tl[Len(tl) - 1]

\* createSuperpositions: every entry is collected, the seed too
OldCreateSuperpositions(tl) ==
    Append(tl, <<Any({tl[i][1] : i \in {j \in 1..Len(tl) : Len(tl[j]) > 0}})>>)

\* the callbacks handed to this RunProgram: the example of the README and
\* callbacks of the same shape over other step functions
OldPrograms ==
    {ExampleProgram} \cup {ChattyProgram(m, P) : m \in 0..1, P \in 1..2}

\* antival := positronic.NewPositronicVariable(seed)
InitOld == \E p \in OldPrograms : InitFor(p)

\* entropy := 1; maxIterations := 100; iterations := 0
OldRunBegin ==
    /\ pc = "idle"
    /\ runs = 0
    /\ pc' = "oldloop"
    /\ entropy' = 1
    /\ iterations' = 0
    /\ runs' = runs + 1
    /\ Did("OldRunProgram", Nil)
    /\ UNCHANGED <<fields, prog, cycleLen, seedRead, cc, cpc, val, printList, printed, ret,
                   seed, calls, assigned, hostOps>>

\* the head of the loop body: Reinitialize on a forward pass; on a
\* backward pass of a converged engine createSuperpositions and break;
\* otherwise call program(pv, entropy)
OldLoopEnter ==
    /\ pc = "oldloop"
    /\ iterations < MaxIterations
    /\ IF entropy > 0
       THEN /\ Becomes(OldReinitialize(Fields, SeedOf(timeline)))
            /\ pc' = "oldcall"
            /\ calls' = calls + 1
            /\ Did("Reinitialize", SeedOf(timeline))
       ELSE IF convergence
            THEN /\ timeline' = OldCreateSuperpositions(timeline)
                 /\ UNCHANGED <<convergence, outputLogs, iteration>>
                 /\ pc' = "olddone"
                 /\ calls' = calls
                 /\ Did("createSuperpositions", Nil)
            ELSE /\ UNCHANGED fields
                 /\ pc' = "oldcall"
                 /\ calls' = calls + 1
                 /\ Did("Backward", Nil)
    /\ cpc' = 1
    /\ UNCHANGED <<prog, entropy, iterations, cycleLen, seedRead, cc, val, printList,
                   printed, ret, seed, runs, assigned, hostOps>>

\* iterations = maxIterations
OldLoopExit ==
    /\ pc = "oldloop"
    /\ ~(iterations < MaxIterations)
    /\ pc' = "olddone"
    /\ Did("LoopExit", Nil)
    /\ UNCHANGED <<fields, prog, locals, printed, ret, seed, runs, calls, assigned, hostOps>>

OldInCall(op) == pc = "oldcall" /\ cpc <= Len(prog.script) /\ prog.script[cpc].op = op

\* the callback prints a line itself: fmt.Printf(format, arg); printed
\* holds the line printed last
OldCallPrintf ==
    /\ OldInCall("Output")
    /\ LET o == prog.script[cpc]
           a == IF o.arg = "engine" THEN EngineRef ELSE Conc(val)
       IN  /\ printed' = <<Printf([format |-> o.format, superArg |-> Any({a})], timeline)>>
           /\ Did(IF o.arg = "engine" THEN "String" ELSE "Printf", Nil)
    /\ cpc' = cpc + 1
    /\ UNCHANGED <<fields, prog, pc, entropy, iterations, cycleLen, seedRead, cc, val,
                   printList, ret, seed, runs, calls, assigned, hostOps>>

\* val := f(antival.CurrentState().(int))
OldCallCompute ==
    /\ OldInCall("Compute")
    /\ LET cur == CurrentState(timeline)
       IN  IF cur.kind = "int"
           THEN val' = Step(prog.fn, cur.v) /\ cpc' = cpc + 1 /\ pc' = pc
           ELSE val' = val /\ cpc' = cpc /\ pc' = "panic"
    /\ seen' = [seen EXCEPT ![0] = CurrentState(timeline)]
    /\ Did("CurrentState", Nil)
    /\ UNCHANGED <<fields, prog, entropy, iterations, cycleLen, seedRead, cc, printList,
                   printed, ret, seed, runs, calls, assigned, hostOps>>

\* antival.Assign(val, entropy)
OldCallAssign ==
    /\ OldInCall("Assign")
    /\ Becomes(OldAssign(Fields, Conc(val), entropy))
    /\ assigned' = Append(assigned, Conc(val))
    /\ cpc' = cpc + 1
    /\ Did("OldAssign", Conc(val))
    /\ UNCHANGED <<prog, pc, entropy, iterations, cycleLen, seedRead, cc, val, printList,
                   printed, ret, seed, runs, calls, hostOps>>

\* after the callback: if entropy < 0 && pv.checkConvergence() then
\* pv.convergence = true; entropy = -entropy; iterations++
OldReturned ==
    /\ pc = "oldcall"
    /\ cpc > Len(prog.script)
    /\ convergence' = IF entropy < 0 /\ OldCheckConvergence(timeline) THEN TRUE
                      ELSE convergence
    /\ entropy' = ReverseArrowOfTime(entropy)
    /\ iterations' = iterations + 1
    /\ pc' = "oldloop"
    /\ Did(IF entropy < 0 THEN "checkConvergence" ELSE "Flip", Nil)
    /\ UNCHANGED <<timeline, outputLogs, iteration, prog, cycleLen, seedRead, cc, cpc, val,
                   printList, printed, ret, seed, runs, calls, assigned, hostOps>>

NextOld ==
    \/ OldRunBegin
    \/ OldLoopEnter
    \/ OldLoopExit
    \/ OldCallPrintf
    \/ OldCallCompute
    \/ OldCallAssign
    \/ OldReturned

SpecOld == InitOld /\ [][NextOld]_vars

(***************************************************************************)
(* The cycle detector on its own, applied to a timeline.                   *)
(***************************************************************************)
InitDetect ==
    /\ prog = ExampleProgram
    /\ timeline \in DetectTimelines
    /\ convergence = FALSE
    /\ outputLogs = <<>>
    /\ iteration = 0
    /\ pc = "detect"
    /\ Locals0
    /\ Ghosts0
    /\ seed = At(timeline, 0)
    /\ lastOp = [name |-> "New", arg |-> Nil]
    /\ pre = Fields
    /\ lastMut = CurrentState(timeline)

Detect ==
    /\ pc = "detect"
    /\ cc' = checkConvergence(timeline)
    /\ pc' = "detected"
    /\ Did("checkConvergence", Nil)
    /\ UNCHANGED <<fields, prog, entropy, iterations, cycleLen, seedRead, cpc, val, printList,
                   printed, ret, seed, runs, calls, assigned, hostOps>>

SpecDetect == InitDetect /\ [][Detect]_vars

(***************************************************************************)
(* What the claims speak of.                                               *)
(***************************************************************************)
RECURSIVE Iterate(_, _, _)
\* the k-th iterate of the step function fn on x
Iterate(fn, x, k) ==
    IF k = 0 THEN x
    ELSE IF k = 1 THEN Step(fn, x)
    ELSE CHOOSE r \in {Iterate(fn, y, k - (k \div 2)) : y \in {Iterate(fn, x, k \div 2)}} : TRUE

\* far enough for every orbit of the model to have entered its cycle
Horizon == 2 * MaxIterations

\* the orbit of p's step function from p's seed: x_0 .. x_(Horizon + MaxPeriod + 1)
OrbitOf(p) == [i \in 1..(Horizon + MaxPeriod + 2) |-> Iterate(p.fn, p.seed, i - 1)]

\* the minimal period of that orbit
Period(p) ==
    LET orb == OrbitOf(p)
    IN  CHOOSE d \in 1..(MaxPeriod + 1) :
            /\ orb[Horizon + 1 + d] = orb[Horizon + 1]
            /\ \A e \in 1..(d - 1) : orb[Horizon + 1 + e] # orb[Horizon + 1]

\* the least m whose m-th iterate lies on the cycle
PrefixLen(p) ==
    LET orb == OrbitOf(p)
        P == Period(p)
    IN  CHOOSE m \in 0..Horizon :
            /\ orb[m + 1 + P] = orb[m + 1]
            /\ \A j \in 0..(m - 1) : orb[j + 1 + P] # orb[j + 1]

\* the timeline whose entries are the integers of s
TimelineOf(s) == [i \in 1..Len(s) |-> <<Conc(s[i])>>]

\* the entries the callback assigned, as timeline entries
Entries(s) == [i \in 1..Len(s) |-> <<s[i]>>]

\* the match condition of the specification for a candidate length L
MatchesAt(tl, L) == \A i \in 0..(L - 1) : tl[Len(tl) - i] = tl[Len(tl) - i - L]

Min2(a, b) == IF a < b THEN a ELSE b

\* every candidate length that matches
CycleLengths(tl) == {L \in 1..Min2(MaxCycleLength, Len(tl) \div 2) : MatchesAt(tl, L)}

(***************************************************************************)
(* C1                                                                      *)
(***************************************************************************)
\* C1 as claimed: whatever the prefix, a run whose step function has
\* minimal period P <= 10 returns converged with cycle length P
C1_ConvergesWhateverPrefix ==
    (pc = "done" /\ Period(prog) <= MaxCycleLength)
        => (convergence /\ cycleLen = Period(prog))

\* C1 amended: the run returns; with minimal period P <= 10 and a prefix of
\* m values it returns converged with cycle length P when m + 2P <= 101,
\* and not converged when the prefix is longer
C1_ConvergesWithinBudget ==
    /\ <>(pc = "done")
    /\ []((pc = "done" /\ Period(prog) <= MaxCycleLength)
            => IF PrefixLen(prog) + 2 * Period(prog) <= MaxIterations + 1
               THEN convergence /\ cycleLen = Period(prog)
               ELSE ~convergence /\ cycleLen = 0)

\* a run that converges in its last iteration, after a long prefix
C1_Witness ==
    /\ pc = "done"
    /\ convergence
    /\ cycleLen = MaxCycleLength
    /\ calls = MaxIterations
    /\ PrefixLen(prog) > MaxPrefix

(***************************************************************************)
(* C2                                                                      *)
(***************************************************************************)
\* C2: checkConvergence returns the smallest matching length in
\* 1..min(10, N/2), (false, 0) exactly when none matches, and reads only
\* indices 0..N-1
C2_SmallestCycle ==
    pc = "detected" =>
        /\ cc.reads \subseteq 0..(Len(timeline) - 1)
        /\ IF CycleLengths(timeline) = {}
           THEN ~cc.found /\ cc.len = 0
           ELSE /\ cc.found
                /\ cc.len \in CycleLengths(timeline)
                /\ \A L \in CycleLengths(timeline) : cc.len <= L

\* a timeline on which several lengths match and the smallest is not 1
C2_Witness ==
    /\ pc = "detected"
    /\ cc.found
    /\ cc.len > 1
    /\ Cardinality(CycleLengths(timeline)) > 1

(***************************************************************************)
(* C3                                                                      *)
(***************************************************************************)
\* C3: a run in which no backward pass found a cycle returns after exactly
\* MaxIterations callback invocations, not converged, its timeline the seed
\* followed by the assigned values, all concrete, and nothing printed
C3_NoCycleNoCollapse ==
    (pc = "done" /\ ~cc.found) =>
        /\ calls = MaxIterations
        /\ ~convergence
        /\ timeline = << <<seed>> >> \o Entries(assigned)
        /\ \A i \in 1..Len(timeline) : timeline[i][1].kind = "int"
        /\ CurrentState(timeline) = IF assigned = <<>> THEN seed ELSE assigned[Len(assigned)]
        /\ printed = <<>>

\* such a run with output recorded in every iteration after the first
C3_Witness ==
    /\ pc = "done"
    /\ ~cc.found
    /\ Len(outputLogs) = MaxIterations
    /\ \A i \in 2..Len(outputLogs) : Len(outputLogs[i]) > 0

(***************************************************************************)
(* C4                                                                      *)
(***************************************************************************)
\* C4: the collapse appends, at position N, the superposition of exactly the
\* distinct values at positions 1..N-1 of the timeline the cycle was
\* detected on
C4_CollapseSet ==
    lastOp.name = "createSuperpositions" =>
        /\ Len(pre.timeline) = cc.n
        /\ timeline =
             Append(pre.timeline, <<Any({pre.timeline[i + 1][1] : i \in 1..(cc.n - 1)})>>)

\* a collapse over a timeline with a prefix before the cycle and duplicates
C4_Witness ==
    /\ lastOp.name = "createSuperpositions"
    /\ PrefixLen(prog) >= 2
    /\ Conc(1) \in CurrentState(timeline).set
    /\ Cardinality(CurrentState(timeline).set) < cc.n - 1

(***************************************************************************)
(* C5                                                                      *)
(***************************************************************************)
\* C5 as claimed: the seed value is never a member of the collapsed set
C5_SeedNeverMember ==
    (pc = "done" /\ convergence) => At(timeline, 0) \notin CurrentState(timeline).set

\* C5 amended: entry 0 is never collected; the seed value is a member of the
\* collapsed set exactly when the callback assigned that value itself
C5_SeedOnlyIfAssigned ==
    (pc = "done" /\ convergence) =>
        (At(timeline, 0) \in CurrentState(timeline).set
            <=> At(timeline, 0) \in SeqToSet(assigned))

\* a converged run whose seed is not on the cycle
C5_Witness ==
    /\ pc = "done"
    /\ convergence
    /\ PrefixLen(prog) >= 1
    /\ At(timeline, 0) \notin CurrentState(timeline).set

(***************************************************************************)
(* C6                                                                      *)
(***************************************************************************)
\* C6 as claimed: seed -1 and (current+1) mod 3 give [-1, 0, 1, 0, 1, ...],
\* cycle length 2 and the superposition {0, 1}
C6_ScenarioAsClaimed ==
    (prog = ExampleProgram /\ pc = "done") =>
        /\ SubSeq(timeline, 1, 5) = TimelineOf(<<-1, 0, 1, 0, 1>>)
        /\ cycleLen = 2
        /\ CurrentState(timeline) = Any({Conc(0), Conc(1)})

\* C6 amended: they give [-1, 0, 1, 2, 0, 1, 2], cycle length 3 and the
\* superposition {0, 1, 2}
C6_Scenario ==
    (prog = ExampleProgram /\ pc = "done") =>
        /\ convergence
        /\ cycleLen = 3
        /\ timeline = Append(TimelineOf(<<-1, 0, 1, 2, 0, 1, 2>>),
                             <<Any({Conc(0), Conc(1), Conc(2)})>>)

\* the example has run and converged
C6_Witness == prog = ExampleProgram /\ pc = "done" /\ convergence /\ calls = 6

C8_Reinitialize ==
    lastOp.name = "Reinitialize" =>
        /\ timeline = << <<lastOp.arg>> >>
        /\ ~convergence
        /\ outputLogs = <<>>

\* the host reinitializes an engine that had converged and logged output
C8_Witness ==
    /\ lastOp.name = "Reinitialize"
    /\ pc = "idle"
    /\ pre.convergence
    /\ CurrentState(pre.timeline).kind = "any"
    /\ \E i \in 1..Len(pre.outputLogs) : Len(pre.outputLogs[i]) > 0

(***************************************************************************)
(* C9                                                                      *)
(***************************************************************************)
\* C9: the timeline is never empty and its entry 0 is the seed the host gave
\* the engine (at construction, or at its last Reinitialize), so
\* CurrentState is never nil and RunProgram's read of timeline[0][0] yields
\* that seed
C9_SeedKept ==
    /\ Len(timeline) >= 1
    /\ At(timeline, 0) = seed
    /\ CurrentState(timeline) # Nil
    /\ pc = "reinit" => seedRead = seed

\* a second run starting on an engine that converged and was assigned to
C9_Witness ==
    /\ pc = "reinit"
    /\ runs >= 2
    /\ convergence
    /\ CurrentState(timeline).kind = "int"
    /\ seed = Conc(prog.seed)

(***************************************************************************)
(* C10                                                                     *)
(***************************************************************************)
\* C10: Assign(v) appends one entry of value v, changes no earlier entry,
\* nor the convergence flag, nor the output logs, and CurrentState is then v
C10_AssignAppends ==
    lastOp.name = "Assign" =>
        /\ timeline = Append(pre.timeline, <<lastOp.arg>>)
        /\ convergence = pre.convergence
        /\ outputLogs = pre.outputLogs
        /\ iteration = pre.iteration
        /\ CurrentState(timeline) = lastOp.arg

\* an Assign on a converged engine whose arrow of time points backward
C10_Witness ==
    /\ lastOp.name = "Assign"
    /\ convergence
    /\ entropy < 0
    /\ CurrentState(pre.timeline).kind = "any"

(***************************************************************************)
(* C11                                                                     *)
(***************************************************************************)
\* C11: CurrentState changes no field of the engine and returns the value of
\* the last timeline entry; all the CurrentState calls made by any callers
\* since the last mutation returned the same value, the one written by the
\* most recent Assign, Reinitialize or collapse (the seed after construction)
C11_CurrentStateReads ==
    /\ lastOp.name = "CurrentState" => Fields = pre
    /\ \A c \in Callers :
           seen[c] # Nil => seen[c] = At(timeline, Len(timeline) - 1) /\ seen[c] = lastMut
    /\ (lastOp.name = "New" /\ Len(timeline) > 0) => CurrentState(timeline) = seed

\* two host threads and the callback have all read, while RunProgram is
\* inside the callback, the value assigned last
C11_Witness ==
    /\ pc = "call"
    /\ \A c \in {0, 1, 2} : seen[c] # Nil
    /\ hostOps = MaxExtOps
    /\ lastMut # seed

(***************************************************************************)
(* C12                                                                     *)
(***************************************************************************)
\* C12: during a run, an Output call of the callback in iteration 0 leaves
\* the output logs as they were; in iteration k >= 1 it appends exactly one
\* (format, args) entry to the bucket of iteration k and changes no other
\* bucket, nor the timeline, nor the convergence flag; and there are as many
\* buckets as iterations started
C12_OutputLogged ==
    /\ (lastOp.name = "Output" /\ pc = "call") =>
           /\ timeline = pre.timeline
           /\ convergence = pre.convergence
           /\ iteration = iterations
           /\ IF iterations = 0
              THEN outputLogs = pre.outputLogs
              ELSE /\ Len(pre.outputLogs) = iterations + 1
                   /\ outputLogs =
                         [pre.outputLogs EXCEPT ![iterations + 1] =
                             Append(@, [format |-> prog.script[cpc - 1].format,
                                        args |-> <<lastOp.arg>>])]
    /\ pc \in {"loop", "call", "mark", "collapse", "process", "print", "done"} =>
           Len(outputLogs) = calls

\* the callback's second Output call of iteration 2, after silent calls in
\* iteration 0 and recorded ones in iteration 1
C12_Witness ==
    /\ lastOp.name = "Output"
    /\ pc = "call"
    /\ iterations = 2
    /\ outputLogs[1] = <<>>
    /\ Len(outputLogs[2]) >= 2
    /\ Len(outputLogs[3]) = 2

(***************************************************************************)
(* C13                                                                     *)
(***************************************************************************)
\* the callback calls Assign once per invocation
AssignsOnce(p) == Cardinality({i \in DOMAIN p.script : p.script[i].op = "Assign"}) = 1

\* the entries logged in the iterations from..to
LoggedIn(from, to) ==
    UNION {SeqToSet(outputLogs[i + 1]) : i \in {j \in from..to : j + 1 \in DOMAIN outputLogs}}

\* C13: when a run whose callback assigns once per iteration has converged
\* at iteration k with cycle length L, the lines printed are, for each format
\* key logged in the iterations k-L+1..k, exactly one line whose argument is
\* the superposition of the distinct arguments logged under that key in those
\* iterations, and nothing else
C13_OutputCollapse ==
    (pc = "done" /\ convergence /\ AssignsOnce(prog)) =>
        LET E == LoggedIn(iterations - cycleLen + 1, iterations)
            keys == {e.format : e \in E}
            argsOf(key) == UNION {SeqToSet(e.args) : e \in {x \in E : x.format = key}}
        IN  /\ iterations - cycleLen + 1 >= 0
            /\ Len(printed) = Cardinality(keys)
            /\ \A i \in DOMAIN printed : printed[i].format \in keys
            /\ \A key \in keys :
                   \E i \in DOMAIN printed :
                       /\ printed[i].format = key
                       /\ printed[i].text = Any({Render(a, timeline) : a \in argsOf(key)})

\* a converged run that logged the warm-up key before the cycle only, the
\* engine under one key in every iteration, and two values under another
C13_Witness ==
    /\ pc = "done"
    /\ convergence
    /\ AssignsOnce(prog)
    /\ \E e \in LoggedIn(1, iterations - cycleLen) : e.format = WarmupLine
    /\ \A i \in DOMAIN printed : printed[i].format # WarmupLine
    /\ \E i \in DOMAIN printed :
           printed[i].format = AntivalLine /\ Cardinality(printed[i].text.set) = 1
    /\ \E i \in DOMAIN printed :
           printed[i].format = ValueLine /\ Cardinality(printed[i].text.set) = 2

(***************************************************************************)
(* C14                                                                     *)
(***************************************************************************)
\* C14: every read and every write of the timeline, the convergence flag,
\* the output logs and the iteration counter, by the methods and by
\* RunProgram's own steps, is made while the acting thread holds the lock
C14_AccessesUnderLock == \A a \in acc : a.locked

C16_Terminates ==
    /\ <>(pc = "done")
    /\ [](/\ calls <= MaxIterations
          /\ pc = "loop" => calls = iterations
          /\ pc \in {"call", "mark", "collapse"} => calls = iterations + 1
          /\ pc = "done" => calls = IF convergence THEN iterations + 1 ELSE MaxIterations)

\* a run that used the whole budget with two Assign calls per invocation
C16_Witness ==
    /\ pc = "done"
    /\ calls = MaxIterations
    /\ Len(assigned) = 2 * MaxIterations
    /\ Len(outputLogs[MaxIterations]) = 3

(***************************************************************************)
(* C17                                                                     *)
(***************************************************************************)
\* C17: once the detector has reported a cycle in a single-threaded run, the
\* callback is not invoked again, exactly one superposition is appended, and
\* on return the flag is true and CurrentState is that superposition; and on
\* return the flag is true only if the last entry is a superposition this
\* run appended after a detection
C17_DetectionEndsRun ==
    /\ cc.found =>
           /\ pc \in {"mark", "collapse", "process", "print", "done"}
           /\ calls = iterations + 1
           /\ Len(assigned) = cc.n - 1
           /\ \A i \in 1..cc.n : timeline[i][1].kind = "int"
           /\ Len(timeline) = IF pc \in {"mark", "collapse"} THEN cc.n ELSE cc.n + 1
    /\ (cc.found /\ pc = "done") =>
           /\ convergence
           /\ CurrentState(timeline) = Any({timeline[i][1] : i \in 2..cc.n})
    /\ (pc = "done" /\ convergence) =>
           /\ cc.found
           /\ CurrentState(timeline).kind = "any"
           /\ Len(timeline) = Len(assigned) + 2

\* a run that returned converged after three Assign calls per invocation
C17_Witness ==
    /\ pc = "done"
    /\ cc.found
    /\ convergence
    /\ Len(assigned) = 3 * calls
    /\ CurrentState(timeline).kind = "any"

(***************************************************************************)
(* C18                                                                     *)
(***************************************************************************)
\* C18: every run starts with the arrow of time forward, whatever the
\* previous run left; the arrow turns after every iteration that does not
\* converge, so iteration i is a forward pass exactly when i is even; the
\* detector runs after the callback of every odd iteration and of no even
\* one, so convergence is declared at an odd iteration only
C18_ArrowAlternates ==
    /\ pc = "reinit" => entropy = 1 /\ iterations = 0
    /\ pc \in {"loop", "call", "mark", "collapse"} =>
           entropy = IF iterations % 2 = 0 THEN 1 ELSE 0 - 1
    /\ lastOp.name = "checkConvergence" => iteration % 2 = 1
    /\ lastOp.name = "Flip" => iteration % 2 = 0
    /\ (pc = "loop" /\ iterations >= 1) =>
           lastOp.name = IF iterations % 2 = 0 THEN "checkConvergence" ELSE "Flip"
    /\ (cc.found /\ pc \in {"mark", "collapse", "process", "print", "done"}) =>
           iterations % 2 = 1

\* a detection in the second run of an engine, at iteration 3 or later
C18_Witness ==
    /\ runs = 2
    /\ pc = "mark"
    /\ cc.found
    /\ entropy < 0
    /\ iterations >= 3

(***************************************************************************)
(* C19                                                                     *)
(***************************************************************************)
\* C19: after Reinitialize has returned, also when a completed run came
\* before it, an Output call made before iteration 1 of the next run records
\* nothing in the output logs
C19_SilentAfterReinitialize ==
    (lastOp.name = "Output" /\ seeding) =>
        /\ outputLogs = pre.outputLogs
        /\ \A i \in DOMAIN outputLogs : outputLogs[i] = <<>>

(***************************************************************************)
(* C20                                                                     *)
(***************************************************************************)
\* C20: for a callback that assigns f(CurrentState()) once per iteration with
\* f of minimal period above MaxCycleLength, the detector never reports a
\* cycle although the timeline repeats: the run uses its MaxIterations
\* iterations, the flag stays false and no superposition is appended
C20_LongPeriodUndetected ==
    LET detected == \/ cc.found
                    \/ convergence
                    \/ \E i \in 1..Len(timeline) : timeline[i][1].kind # "int"
    IN  (detected \/ pc = "done") =>
            ((AssignsOnce(prog) /\ Period(prog) > MaxCycleLength) =>
                /\ ~detected
                /\ calls = MaxIterations
                /\ Len(timeline) = MaxIterations + 1
                /\ \A i \in (PrefixLen(prog) + 1)..(Len(timeline) - Period(prog)) :
                       timeline[i + Period(prog)] = timeline[i])

\* such a run has returned, its timeline holding the cycle several times
C20_Witness ==
    /\ pc = "done"
    /\ AssignsOnce(prog)
    /\ Period(prog) > MaxCycleLength
    /\ PrefixLen(prog) > 0
    /\ timeline[Len(timeline)] = timeline[Len(timeline) - 3 * Period(prog)]
    /\ ~convergence

(***************************************************************************)
(* C21                                                                     *)
(***************************************************************************)
\* C21: in the entropy-passing variant the example callback is shown the
\* same values in every forward/backward pair and the engine never
\* converges: the loop is never left through the convergence branch and
\* stops at the iteration bound only, with the timeline equal to [seed]
C21_OldNeverConverges ==
    /\ ~convergence
    /\ \A i \in 1..Len(timeline) : timeline[i][1].kind = "int"
    /\ \A i \in 1..Len(assigned) :
           assigned[i] = Conc(Iterate(prog.fn, prog.seed, IF i % 2 = 1 THEN 1 ELSE 2))
    /\ pc = "olddone" =>
           /\ iterations = MaxIterations
           /\ calls = MaxIterations
           /\ Len(assigned) = MaxIterations
           /\ timeline = << <<Conc(prog.seed)>> >>

\* the example has stopped at the iteration bound
C21_Witness ==
    /\ pc = "olddone"
    /\ prog = ExampleProgram
    /\ iterations = MaxIterations
    /\ assigned[MaxIterations - 1] = Conc(0)
    /\ assigned[MaxIterations] = Conc(1)

(***************************************************************************)
(* C22                                                                     *)
(***************************************************************************)
\* C22 as claimed: a RunProgram call that follows another at once, with the
\* same callback, ends with the same flag, cycle length, timeline and the
\* same lines emitted in the same sequence
C22_SameOutcome ==
    (pc = "done" /\ first.ran) =>
        /\ convergence = first.convergence
        /\ cycleLen = first.cycleLen
        /\ timeline = first.timeline
        /\ printed = first.printed

\* C22: a RunProgram call that follows another at once, with the same
\* callback, starts from the seed and not from what the first run left, and
\* ends with the same flag, cycle length and timeline and with the same
\* lines emitted, in an order that may differ
C22_SameOutcomeAnyOrder ==
    /\ (first.ran /\ pc = "loop" /\ iterations = 0) =>
           timeline = << <<seed>> >> /\ ~convergence /\ outputLogs = <<>>
    /\ (pc = "done" /\ first.ran) =>
           /\ convergence = first.convergence
           /\ cycleLen = first.cycleLen
           /\ timeline = first.timeline
           /\ Len(printed) = Len(first.printed)
           /\ SeqToSet(printed) = SeqToSet(first.printed)

\* the second of two runs has returned; both converged and printed two lines
C22_Witness ==
    /\ pc = "done"
    /\ first.ran
    /\ first.convergence
    /\ CurrentState(first.timeline).kind = "any"
    /\ Len(first.printed) = 2
    /\ Len(printed) = 2

(***************************************************************************)
(* C23                                                                     *)
(***************************************************************************)
\* the smallest odd k with k + 2 >= m + 2P, for prefix m and period P
FirstDetection(m, P) ==
    LET t == m + 2 * P - 2
    IN  IF t % 2 = 1 THEN t ELSE t + 1

\* C23: for a callback assigning f(CurrentState()) once per iteration, with
\* f of minimal period P <= MaxCycleLength and m the least index whose
\* iterate lies on the cycle, the detector reports a cycle at the smallest
\* odd iteration k with k + 2 >= m + 2P and at none before, provided k is
\* below MaxIterations, and the callback is invoked k + 1 times
C23_DetectionIteration ==
    (cc.found \/ pc = "done" \/ lastOp.name = "checkConvergence") =>
        ((AssignsOnce(prog) /\ Period(prog) <= MaxCycleLength) =>
            LET k == FirstDetection(PrefixLen(prog), Period(prog))
            IN  /\ cc.found => iterations = k /\ calls = k + 1 /\ cc.n = k + 2
                /\ k < MaxIterations => iterations <= k
                /\ (pc = "done" /\ k < MaxIterations) =>
                       cc.found /\ convergence /\ Len(assigned) = k + 1)

\* a converged run whose timeline held two periods already one iteration
\* before the detection, which had to wait for the next backward pass
C23_Witness ==
    /\ pc = "done"
    /\ convergence
    /\ AssignsOnce(prog)
    /\ PrefixLen(prog) = 2
    /\ Period(prog) = 2
    /\ iterations = 5
    /\ cc.n - 1 = PrefixLen(prog) + 2 * Period(prog)

(***************************************************************************)
(* C24                                                                     *)
(***************************************************************************)
\* C24: with other threads calling Assign or Reinitialize during a run, no
\* such call takes effect between the detection, the setting of the flag
\* and the append of the superposition, and the superposition is built from
\* exactly the entries 1..N-1 of the timeline the detector found the cycle on
C24_DetectCollapseAtomic ==
    /\ pc \in {"mark", "collapse"} => lastOp.name \notin {"Assign", "Reinitialize"}
    /\ lastOp.name = "createSuperpositions" =>
           /\ Len(pre.timeline) = cc.n
           /\ convergence
           /\ CurrentState(timeline) = Any({pre.timeline[i][1] : i \in 2..cc.n})

(***************************************************************************)
(* C25                                                                     *)
(***************************************************************************)
\* the number of Assign calls the callback makes per invocation
AssignCount(p) == Cardinality({i \in DOMAIN p.script : p.script[i].op = "Assign"})

\* C25: for a callback calling Assign a fixed number m >= 1 of times per
\* invocation, a run that converged has at least as many output buckets as
\* the detected cycle length, so processOutputs did not take its early
\* return, and a line was printed for every format key logged in the last
\* iteration of the detected cycle
C25_ConvergedRunEmits ==
    (pc = "done" /\ convergence /\ AssignCount(prog) >= 1) =>
        /\ Len(outputLogs) >= cycleLen
        /\ ~ProcessSkips(outputLogs, cycleLen)
        /\ \A e \in LoggedIn(iterations, iterations) :
               \E i \in DOMAIN printed : printed[i].format = e.format

====
